---- MODULE Spec2Model ----
(***************************************************************************)
(* go-ceph rados binding, ioctx.go: the IOContext wrapper over librados.   *)
(*                                                                         *)
(* Every exported method marshals its arguments into one librados call and *)
(* converts the returned status.  The wrapper is modelled in two halves    *)
(* per method: <Method>Args (what is passed to librados, or that the       *)
(* method faults / returns before the call) and <Method>Return (the Go     *)
(* result built from the status).  librados itself is not part of the      *)
(* repository; its object store is modelled from the documented contract.  *)
(***************************************************************************)
EXTENDS Integers, Sequences, FiniteSets, TLC

VARIABLES
    objects,    \* librados: the pool's live objects, oid -> [exists, data]
    msnaps,     \* librados: self-managed snapshots, id -> [state, store]
    readSnap,   \* librados: per-ioctx read snapshot (rados_ioctx_snap_set_read)
    released,   \* librados: number of rados_ioctx_destroy calls seen per handle
    last,       \* the last wrapper invocation: arguments, librados calls, result
    poolName,   \* librados: the pool's name (a byte string)
    gpn,        \* GetPoolName in progress: [pc, buflen, rets, name, err]
    pool,       \* librados: the pool's object names in listing order
    cursors,    \* librados: list cursors, id -> [state, pos, closes, late, lastRet]
    lo          \* ListObjects in progress: [pc, ctx, entry, trace, err, outcome, runs]

vars == <<objects, msnaps, readSnap, released, last, poolName, gpn, pool, cursors, lo>>

ioVars   == <<objects, msnaps, readSnap>>
nameVars == <<poolName, gpn>>
listVars == <<pool, cursors, lo>>

----------------------------------------------------------------------------
(* Bounds of the model. *)

MaxSize    == 2    \* largest object size / offset+length explored
MaxDestroy == 2    \* Destroy calls explored per context
MaxNameLen == 300  \* longest pool name explored
MaxPool    == 3    \* most objects in the listed pool
MaxRuns    == 2    \* ListObjects invocations explored

Ctxs  == {"c1", "c2"}
Oids  == {"a"}
Bytes == {1}
SnapNames == {"s1"}
SnapIds == {1}     \* self-managed snapshot ids the cluster hands out

Min(a, b) == IF a < b THEN a ELSE b
Max(a, b) == IF a > b THEN a ELSE b

ZeroFill(n) == [i \in 1..n |-> 0]

(* Byte strings of length 0..n over S. *)
SeqsUpTo(S, n) == UNION {[1..k -> S] : k \in 0..n}

----------------------------------------------------------------------------
(* Status codes. *)

ENOENT == -2
ERANGE == -34

(* error values: nil, or RadosError(code) *)
Nil == [isErr |-> FALSE, code |-> 0]
RadosError(code) == [isErr |-> TRUE, code |-> code]

----------------------------------------------------------------------------
(* A librados call as issued by the wrapper. *)

NoCall == [issued |-> FALSE, panic |-> FALSE, fn |-> "", handle |-> "", oid |-> "",
           buf |-> <<>>, len |-> 0, off |-> 0, snap |-> 0, name |-> ""]

Call(fn, handle) == [NoCall EXCEPT !.issued = TRUE, !.fn = fn, !.handle = handle]

(* Evaluating &data[0] on an empty slice: Go's bounds check panics. *)
IndexPanic == [NoCall EXCEPT !.panic = TRUE]

NoStat == [num_bytes |-> 0, num_kb |-> 0, num_objects |-> 0, num_object_clones |-> 0,
           num_object_copies |-> 0, num_objects_missing_on_primary |-> 0,
           num_objects_unfound |-> 0, num_objects_degraded |-> 0,
           num_rd |-> 0, num_rd_kb |-> 0, num_wr |-> 0, num_wr_kb |-> 0]

PoolStatZero == [Num_bytes |-> 0, Num_kb |-> 0, Num_objects |-> 0, Num_object_clones |-> 0,
                 Num_object_copies |-> 0, Num_objects_missing_on_primary |-> 0,
                 Num_objects_unfound |-> 0, Num_objects_degraded |-> 0,
                 Num_rd |-> 0, Num_rd_kb |-> 0, Num_wr |-> 0, Num_wr_kb |-> 0]

NoSnapshot == [nil |-> TRUE, id |-> 0]

LoIdle == [pc |-> "idle", ctx |-> 0, entry |-> 0, trace |-> <<>>, err |-> Nil,
           outcome |-> "none", runs |-> 0]

(* The record kept of an invocation.  echo is history: it is on for a Read  *)
(* that immediately follows a successful Write through the same context, of *)
(* the same object, offset and length, and then holds the bytes written.    *)

Idle == [op |-> "", ctx |-> "", oid |-> "", data |-> <<>>, off |-> 0, snap |-> 0,
         name |-> "", calls |-> <<>>, rets |-> <<>>, outcome |-> "none", err |-> Nil,
         n |-> 0, buf |-> <<>>, stat |-> PoolStatZero, snapOut |-> NoSnapshot,
         echo |-> [on |-> FALSE, data |-> <<>>]]

(* The invocation record: the calls issued, their statuses, and the result. *)
Invocation(op, c, call, ret) ==
    [Idle EXCEPT !.op = op, !.ctx = c,
                 !.calls = IF call.issued THEN <<call>> ELSE <<>>,
                 !.rets = IF call.issued THEN <<ret>> ELSE <<>>,
                 !.outcome = IF call.panic THEN "panic" ELSE "return"]

----------------------------------------------------------------------------
(* The wrapper: one pair of definitions per method of IOContext.           *)

(* Write: rados_write(ioctx, c_oid, &data[0], len(data), offset). *)
WriteArgsOffsetZero(c, oid, data, offset) ==
    IF Len(data) = 0
    THEN IndexPanic
    ELSE [Call("rados_write", c) EXCEPT !.oid = oid, !.buf = data,
                                         !.len = Len(data), !.off = 0]

WriteArgs(c, oid, data, offset) ==
    IF Len(data) = 0
    THEN IndexPanic
    ELSE [Call("rados_write", c) EXCEPT !.oid = oid, !.buf = data,
                                         !.len = Len(data), !.off = offset]

WriteReturnNegativeOnly(ret) == IF ret < 0 THEN RadosError(ret) ELSE Nil

WriteReturn(ret) == IF ret = 0 THEN Nil ELSE RadosError(ret)

WriteDone(c, oid, data, offset, ret) ==
    LET call == WriteArgs(c, oid, data, offset)
    IN  [Invocation("Write", c, call, ret) EXCEPT
            !.oid = oid, !.data = data, !.off = offset,
            !.err = IF call.issued THEN WriteReturn(ret) ELSE Nil]

(* Read: returns (0, nil) for an empty buffer, else                        *)
(* rados_read(ioctx, c_oid, &data[0], len(data), offset).                  *)
ReadArgsNoGuard(c, oid, data, offset) ==
    IF Len(data) = 0
    THEN IndexPanic
    ELSE [Call("rados_read", c) EXCEPT !.oid = oid, !.buf = data,
                                        !.len = Len(data), !.off = offset]

ReadArgs(c, oid, data, offset) ==
    IF Len(data) = 0
    THEN NoCall
    ELSE [Call("rados_read", c) EXCEPT !.oid = oid, !.buf = data,
                                        !.len = Len(data), !.off = offset]

ReadReturn(ret) ==
    IF ret >= 0 THEN [n |-> ret, err |-> Nil]
                ELSE [n |-> 0, err |-> RadosError(ret)]

(* bytes: what librados stored through the buffer pointer. *)
ReadDone(c, oid, data, offset, ret, bytes) ==
    LET call == ReadArgs(c, oid, data, offset)
        res  == IF call.issued THEN ReadReturn(ret) ELSE [n |-> 0, err |-> Nil]
        k    == IF call.issued THEN Min(Len(bytes), Len(data)) ELSE 0
    IN  [Invocation("Read", c, call, ret) EXCEPT
            !.oid = oid, !.data = data, !.off = offset,
            !.n = res.n, !.err = res.err,
            !.buf = IF call.panic THEN data
                    ELSE SubSeq(bytes, 1, k) \o SubSeq(data, k + 1, Len(data))]

(* Delete: rados_remove(ioctx, c_oid). *)
DeleteArgs(c, oid) == [Call("rados_remove", c) EXCEPT !.oid = oid]

DeleteReturn(ret) == IF ret = 0 THEN Nil ELSE RadosError(ret)

DeleteDone(c, oid, ret) ==
    [Invocation("Delete", c, DeleteArgs(c, oid), ret) EXCEPT
        !.oid = oid, !.err = DeleteReturn(ret)]

(* Truncate: rados_trunc(ioctx, c_oid, size). *)
TruncateArgs(c, oid, size) == [Call("rados_trunc", c) EXCEPT !.oid = oid, !.off = size]

TruncateReturn(ret) == IF ret = 0 THEN Nil ELSE RadosError(ret)

TruncateDone(c, oid, size, ret) ==
    [Invocation("Truncate", c, TruncateArgs(c, oid, size), ret) EXCEPT
        !.oid = oid, !.off = size, !.err = TruncateReturn(ret)]

(* Destroy: rados_ioctx_destroy(ioctx); nothing is recorded in IOContext. *)
DestroyArgsOnce(c) == IF released[c] > 0 THEN NoCall ELSE Call("rados_ioctx_destroy", c)

DestroyArgs(c) == Call("rados_ioctx_destroy", c)

DestroyDone(c) == Invocation("Destroy", c, DestroyArgs(c), 0)

(* GetPoolStats: rados_ioctx_pool_stat(ioctx, &c_stat). *)
GetPoolStatsArgs(c) == Call("rados_ioctx_pool_stat", c)

GetPoolStatsReturn(ret, c_stat) ==
    IF ret < 0
    THEN [stat |-> PoolStatZero, err |-> RadosError(ret)]
    ELSE [stat |-> [Num_bytes |-> c_stat.num_bytes,
                    Num_kb |-> c_stat.num_kb,
                    Num_objects |-> c_stat.num_objects,
                    Num_object_clones |-> c_stat.num_object_clones,
                    Num_object_copies |-> c_stat.num_object_copies,
                    Num_objects_missing_on_primary |-> c_stat.num_objects_missing_on_primary,
                    Num_objects_unfound |-> c_stat.num_objects_unfound,
                    Num_objects_degraded |-> c_stat.num_objects_degraded,
                    Num_rd |-> c_stat.num_rd,
                    Num_rd_kb |-> c_stat.num_rd_kb,
                    Num_wr |-> c_stat.num_wr,
                    Num_wr_kb |-> c_stat.num_wr_kb],
          err |-> Nil]

GetPoolStatsDone(c, ret, c_stat) ==
    LET res == GetPoolStatsReturn(ret, c_stat)
    IN  [Invocation("GetPoolStats", c, GetPoolStatsArgs(c), ret) EXCEPT
            !.stat = res.stat, !.err = res.err]

(* CreatePoolSnapshot: rados_ioctx_snap_create(ioctx, c_name). *)
CreatePoolSnapshotArgs(c, name) == [Call("rados_ioctx_snap_create", c) EXCEPT !.name = name]

CreatePoolSnapshotReturn(ret) == IF ret < 0 THEN RadosError(ret) ELSE Nil

CreatePoolSnapshotDone(c, name, ret) ==
    [Invocation("CreatePoolSnapshot", c, CreatePoolSnapshotArgs(c, name), ret) EXCEPT
        !.name = name, !.err = CreatePoolSnapshotReturn(ret)]

(* RemovePoolSnapshot: rados_ioctx_snap_remove(ioctx, c_name). *)
RemovePoolSnapshotArgs(c, name) == [Call("rados_ioctx_snap_remove", c) EXCEPT !.name = name]

RemovePoolSnapshotReturn(ret) == IF ret < 0 THEN RadosError(ret) ELSE Nil

RemovePoolSnapshotDone(c, name, ret) ==
    [Invocation("RemovePoolSnapshot", c, RemovePoolSnapshotArgs(c, name), ret) EXCEPT
        !.name = name, !.err = RemovePoolSnapshotReturn(ret)]

(* RollbackObject: rados_ioctx_snap_rollback(ioctx, c_oid, c_name). *)
RollbackObjectArgs(c, oid, name) ==
    [Call("rados_ioctx_snap_rollback", c) EXCEPT !.oid = oid, !.name = name]

RollbackObjectReturn(ret) == IF ret < 0 THEN RadosError(ret) ELSE Nil

RollbackObjectDone(c, oid, name, ret) ==
    [Invocation("RollbackObject", c, RollbackObjectArgs(c, oid, name), ret) EXCEPT
        !.oid = oid, !.name = name, !.err = RollbackObjectReturn(ret)]

(* SetReadSnapshot: rados_ioctx_snap_set_read(ioctx, *snap); no result. *)
SetReadSnapshotArgsZero(c, snap) == [Call("rados_ioctx_snap_set_read", c) EXCEPT !.snap = 0]

SetReadSnapshotArgs(c, snap) == [Call("rados_ioctx_snap_set_read", c) EXCEPT !.snap = snap]

SetReadSnapshotDone(c, snap) ==
    [Invocation("SetReadSnapshot", c, SetReadSnapshotArgs(c, snap), 0) EXCEPT !.snap = snap]

(* CreateManagedSnapshot: rados_ioctx_selfmanaged_snap_create(ioctx, &snap). *)
CreateManagedSnapshotArgs(c) == Call("rados_ioctx_selfmanaged_snap_create", c)

CreateManagedSnapshotReturn(ret, id) ==
    IF ret < 0 THEN [snap |-> NoSnapshot, err |-> RadosError(ret)]
               ELSE [snap |-> [nil |-> FALSE, id |-> id], err |-> Nil]

CreateManagedSnapshotDone(c, ret, id) ==
    LET res == CreateManagedSnapshotReturn(ret, id)
    IN  [Invocation("CreateManagedSnapshot", c, CreateManagedSnapshotArgs(c), ret) EXCEPT
            !.snapOut = res.snap, !.err = res.err]

(* RemoveManagedSnapshot: rados_ioctx_selfmanaged_snap_remove(ioctx, *snap). *)
RemoveManagedSnapshotArgs(c, snap) ==
    [Call("rados_ioctx_selfmanaged_snap_remove", c) EXCEPT !.snap = snap]

RemoveManagedSnapshotReturn(ret) == IF ret < 0 THEN RadosError(ret) ELSE Nil

RemoveManagedSnapshotDone(c, snap, ret) ==
    [Invocation("RemoveManagedSnapshot", c, RemoveManagedSnapshotArgs(c, snap), ret) EXCEPT
        !.snap = snap, !.err = RemoveManagedSnapshotReturn(ret)]

(* RollbackManagedObject: rados_ioctx_selfmanaged_snap_rollback(ioctx, c_oid, *snap). *)
RollbackManagedObjectArgs(c, oid, snap) ==
    [Call("rados_ioctx_selfmanaged_snap_rollback", c) EXCEPT !.oid = oid, !.snap = snap]

RollbackManagedObjectReturn(ret) == IF ret < 0 THEN RadosError(ret) ELSE Nil

RollbackManagedObjectDone(c, oid, snap, ret) ==
    [Invocation("RollbackManagedObject", c, RollbackManagedObjectArgs(c, oid, snap), ret) EXCEPT
        !.oid = oid, !.snap = snap, !.err = RollbackManagedObjectReturn(ret)]

----------------------------------------------------------------------------
(* GetPoolName: the grow-and-retry loop around rados_ioctx_get_pool_name.   *)

InitialBufLen == 128

GpnIdle == [pc |-> "idle", buflen |-> 0, rets |-> <<>>, name |-> <<>>, err |-> Nil]

(* buf := make([]byte, 128) *)
GetPoolNameEnter == [GpnIdle EXCEPT !.pc = "call", !.buflen = InitialBufLen]

(* buf = make([]byte, len(buf)*2) *)
GrowSame(buflen) == buflen

Grow(buflen) == buflen * 2

(* C.GoStringN(&buf[0], ret): the first ret bytes of the buffer. *)
GoStringN(buf, n) == SubSeq(buf, 1, n)

(* One pass of the loop body, the call having returned ret with the buffer  *)
(* holding buf.                                                             *)
GetPoolNameLoop(g, ret, buf) ==
    IF ret = ERANGE
    THEN [g EXCEPT !.buflen = Grow(g.buflen), !.rets = Append(g.rets, ret)]
    ELSE IF ret < 0
    THEN [g EXCEPT !.pc = "done", !.rets = Append(g.rets, ret),
                   !.name = <<>>, !.err = RadosError(ret)]
    ELSE [g EXCEPT !.pc = "done", !.rets = Append(g.rets, ret),
                   !.name = GoStringN(buf, ret), !.err = Nil]

(* librados: the name fits when a terminating NUL fits after it; then it is *)
(* copied and its length returned.  The cluster may also fail the call.     *)
NameFaults == {-5}

rados_ioctx_get_pool_name(buflen) ==
    IF Len(poolName) >= buflen
    THEN [ret |-> ERANGE, buf |-> ZeroFill(buflen)]
    ELSE [ret |-> Len(poolName),
          buf |-> poolName \o ZeroFill(buflen - Len(poolName))]

NameResponses(buflen) ==
    {rados_ioctx_get_pool_name(buflen)}
        \cup {[ret |-> f, buf |-> ZeroFill(buflen)] : f \in NameFaults}

GetPoolName ==
    /\ gpn.pc \in {"idle", "done"}
    /\ gpn' = GetPoolNameEnter
    /\ UNCHANGED <<poolName, ioVars, released, last, listVars>>

GetPoolNameCall ==
    /\ gpn.pc = "call"
    /\ \E resp \in NameResponses(gpn.buflen) :
          gpn' = GetPoolNameLoop(gpn, resp.ret, resp.buf)
    /\ UNCHANGED <<poolName, ioVars, released, last, listVars>>

(* Pool names: one of every length, bytes 1 and 2 alternating. *)
NameOfLen(n) == [i \in 1..n |-> 1 + (i % 2)]

----------------------------------------------------------------------------
(* ListObjects: open a cursor, fetch and visit until end of sequence, with  *)
(* the close deferred.                                                      *)

Event(ev, cur, ret, name) == [ev |-> ev, cur |-> cur, ret |-> ret, name |-> name]

(* if ret < 0 { return RadosError(ret) } after rados_objects_list_open      *)
OpenFailed(ret) == ret < 0

(* The branch taken on the status of rados_objects_list_next. *)
NextBranchErrorFirst(ret) ==
    IF ret < 0 THEN "error" ELSE IF ret = ENOENT THEN "end" ELSE "visit"

NextBranchNegativeEnds(ret) ==
    IF ret < 0 THEN "end" ELSE "visit"

NextBranch(ret) ==
    IF ret = ENOENT THEN "end" ELSE IF ret < 0 THEN "error" ELSE "visit"

(* defer func() { C.rados_objects_list_close(ctx) }(): runs when the        *)
(* function returns and when listFn panics.                                 *)
DeferredNotOnPanic(exit) == exit # "panic"

Deferred(exit) == TRUE

(* librados: list cursors over the pool's names. *)
ListFaults == {-5}

NewCursor == [state |-> "open", pos |-> 0, closes |-> 0, late |-> 0, lastRet |-> 0]

rados_objects_list_next(cur) ==
    LET k == cursors[cur]
    IN  IF k.state # "open"
        THEN [ret |-> ENOENT, entry |-> 0, cur |-> [k EXCEPT !.late = @ + 1]]
        ELSE IF k.pos < Len(pool)
        THEN [ret |-> 0, entry |-> pool[k.pos + 1],
              cur |-> [k EXCEPT !.pos = @ + 1, !.lastRet = 0]]
        ELSE [ret |-> ENOENT, entry |-> 0, cur |-> [k EXCEPT !.lastRet = ENOENT]]

ListNextResponses(cur) ==
    {rados_objects_list_next(cur)}
        \cup {[ret |-> f, entry |-> 0, cur |-> [cursors[cur] EXCEPT !.lastRet = f]] :
                f \in ListFaults}

rados_objects_list_close(k) == [k EXCEPT !.state = "closed", !.closes = @ + 1]

(* Leaving ListObjects after the cursor was opened; k is the cursor as the  *)
(* last call left it, tr the trace so far.                                  *)
ListObjectsExit(exit, err, k, tr) ==
    /\ cursors' = [cursors EXCEPT ![lo.ctx] =
                      IF Deferred(exit) THEN rados_objects_list_close(k) ELSE k]
    /\ lo' = [lo EXCEPT !.pc = "done", !.err = err,
                        !.outcome = IF exit = "panic" THEN "panic" ELSE "return",
                        !.trace = IF Deferred(exit)
                                  THEN Append(tr, Event("close", lo.ctx, 0, 0))
                                  ELSE tr]

ListObjects ==
    /\ lo.pc \in {"idle", "done"}
    /\ lo.runs < MaxRuns
    /\ \E ret \in {0} \cup ListFaults :
          IF OpenFailed(ret)
          THEN /\ lo' = [LoIdle EXCEPT !.pc = "done", !.err = RadosError(ret),
                                       !.outcome = "return", !.runs = lo.runs + 1,
                                       !.trace = <<Event("open", 0, ret, 0)>>]
               /\ UNCHANGED cursors
          ELSE /\ cursors' = Append(cursors, NewCursor)
               /\ lo' = [LoIdle EXCEPT !.pc = "next", !.ctx = Len(cursors) + 1,
                                       !.runs = lo.runs + 1,
                                       !.trace = <<Event("open", Len(cursors) + 1, ret, 0)>>]
    /\ UNCHANGED <<pool, ioVars, released, last, nameVars>>

ListObjectsNext ==
    /\ lo.pc = "next"
    /\ \E resp \in ListNextResponses(lo.ctx) :
          LET tr == Append(lo.trace, Event("next", lo.ctx, resp.ret, resp.entry))
              br == NextBranch(resp.ret)
          IN  IF br = "visit"
              THEN /\ cursors' = [cursors EXCEPT ![lo.ctx] = resp.cur]
                   /\ lo' = [lo EXCEPT !.pc = "visit", !.entry = resp.entry, !.trace = tr]
              ELSE ListObjectsExit(br, IF br = "end" THEN Nil ELSE RadosError(resp.ret),
                                   resp.cur, tr)
    /\ UNCHANGED <<pool, ioVars, released, last, nameVars>>

(* listFn(C.GoString(c_entry)): the visitor returns, or panics. *)
ListObjectsVisit ==
    /\ lo.pc = "visit"
    /\ LET tr == Append(lo.trace, Event("visit", lo.ctx, 0, lo.entry))
       IN  \/ /\ lo' = [lo EXCEPT !.pc = "next", !.trace = tr]
              /\ UNCHANGED cursors
           \/ ListObjectsExit("panic", Nil, cursors[lo.ctx], tr)
    /\ UNCHANGED <<pool, ioVars, released, last, nameVars>>

(* Pools: every order of every set of at most MaxPool names. *)
Pools == {p \in SeqsUpTo(1..MaxPool, MaxPool) :
              \A i, j \in 1..Len(p) : i # j => p[i] # p[j]}

----------------------------------------------------------------------------
(* librados: the object store behind the calls.                            *)

NoObj == [exists |-> FALSE, data |-> <<>>]
EmptyStore == [o \in Oids |-> NoObj]

(* LIBRADOS_SNAP_HEAD: larger than every id the cluster allocates. *)
SnapHead == Cardinality(SnapIds) + 1
(* The snapshot values a caller holds: the ids handed out so far, and the head. *)
SnapArgs == {i \in SnapIds : msnaps[i].state # "free"} \cup {SnapHead}

FreeSnap == [state |-> "free", store |-> EmptyStore]

(* The bytes of an object after writing buf at byte offset off. *)
WriteBytes(old, buf, off) ==
    LET base == IF Len(old) < off THEN old \o ZeroFill(off - Len(old)) ELSE old
        newLen == Max(Len(base), off + Len(buf))
    IN  [i \in 1..newLen |->
            IF i > off /\ i <= off + Len(buf) THEN buf[i - off] ELSE base[i]]

(* The bytes of an object resized to size. *)
TruncBytes(old, size) ==
    IF size <= Len(old) THEN SubSeq(old, 1, size)
                        ELSE old \o ZeroFill(size - Len(old))

(* What a read on handle c sees: the live objects or its read snapshot. *)
View(c) ==
    IF readSnap[c] = SnapHead THEN [valid |-> TRUE, store |-> objects]
    ELSE IF readSnap[c] \in SnapIds /\ msnaps[readSnap[c]].state = "live"
         THEN [valid |-> TRUE, store |-> msnaps[readSnap[c]].store]
         ELSE [valid |-> FALSE, store |-> EmptyStore]

RECURSIVE SumBytes(_, _)
SumBytes(store, S) ==
    IF S = {} THEN 0
    ELSE LET o == CHOOSE x \in S : TRUE
         IN  (IF store[o].exists THEN Len(store[o].data) ELSE 0) + SumBytes(store, S \ {o})

PoolStatOf(store) ==
    [NoStat EXCEPT !.num_bytes = SumBytes(store, Oids),
                   !.num_objects = Cardinality({o \in Oids : store[o].exists})]

(* A response: the status, what was stored through out-pointers, the new state. *)
Unserved == [ret |-> 0, bytes |-> <<>>, c_stat |-> NoStat, snap |-> 0,
             objects |-> objects, msnaps |-> msnaps, readSnap |-> readSnap]

Status(ret) == [Unserved EXCEPT !.ret = ret]

rados_write(call) ==
    LET old == IF objects[call.oid].exists THEN objects[call.oid].data ELSE <<>>
        new == WriteBytes(old, SubSeq(call.buf, 1, call.len), call.off)
    IN  [Unserved EXCEPT !.objects = [objects EXCEPT ![call.oid] = [exists |-> TRUE, data |-> new]]]

rados_read(call) ==
    LET v == View(call.handle)
    IN  IF ~v.valid \/ ~v.store[call.oid].exists THEN Status(ENOENT)
        ELSE LET d == v.store[call.oid].data
                 got == SubSeq(d, call.off + 1, Min(call.off + call.len, Len(d)))
             IN  [Unserved EXCEPT !.ret = Len(got), !.bytes = got]

rados_remove(call) ==
    IF ~objects[call.oid].exists THEN Status(ENOENT)
    ELSE [Unserved EXCEPT !.objects = [objects EXCEPT ![call.oid] = NoObj]]

rados_trunc(call) ==
    LET old == IF objects[call.oid].exists THEN objects[call.oid].data ELSE <<>>
    IN  [Unserved EXCEPT !.objects =
            [objects EXCEPT ![call.oid] = [exists |-> TRUE, data |-> TruncBytes(old, call.off)]]]

rados_ioctx_pool_stat(call) == [Unserved EXCEPT !.c_stat = PoolStatOf(objects)]

rados_ioctx_snap_set_read(call) ==
    [Unserved EXCEPT !.readSnap = [readSnap EXCEPT ![call.handle] = call.snap]]

rados_ioctx_selfmanaged_snap_create(call) ==
    LET id == CHOOSE i \in SnapIds :
                  /\ msnaps[i].state = "free"
                  /\ \A j \in SnapIds : msnaps[j].state = "free" => i <= j
    IN  [Unserved EXCEPT !.snap = id,
                         !.msnaps = [msnaps EXCEPT ![id] = [state |-> "live", store |-> objects]]]

rados_ioctx_selfmanaged_snap_remove(call) ==
    IF call.snap \notin SnapIds \/ msnaps[call.snap].state # "live" THEN Status(ENOENT)
    ELSE [Unserved EXCEPT !.msnaps =
            [msnaps EXCEPT ![call.snap] = [state |-> "removed", store |-> EmptyStore]]]

rados_ioctx_selfmanaged_snap_rollback(call) ==
    IF call.snap \notin SnapIds \/ msnaps[call.snap].state # "live" THEN Status(ENOENT)
    ELSE [Unserved EXCEPT !.objects =
            [objects EXCEPT ![call.oid] = msnaps[call.snap].store[call.oid]]]

Serve(call) ==
    CASE call.fn = "rados_write" -> rados_write(call)
      [] call.fn = "rados_read" -> rados_read(call)
      [] call.fn = "rados_remove" -> rados_remove(call)
      [] call.fn = "rados_trunc" -> rados_trunc(call)
      [] call.fn = "rados_ioctx_pool_stat" -> rados_ioctx_pool_stat(call)
      [] call.fn = "rados_ioctx_snap_set_read" -> rados_ioctx_snap_set_read(call)
      [] call.fn = "rados_ioctx_selfmanaged_snap_create" -> rados_ioctx_selfmanaged_snap_create(call)
      [] call.fn = "rados_ioctx_selfmanaged_snap_remove" -> rados_ioctx_selfmanaged_snap_remove(call)
      [] call.fn = "rados_ioctx_selfmanaged_snap_rollback" -> rados_ioctx_selfmanaged_snap_rollback(call)

(* The cluster serves the call; a call that was never issued changes nothing. *)
Responses(call) == IF ~call.issued THEN {Unserved} ELSE {Serve(call)}

Apply(resp) ==
    /\ objects' = resp.objects
    /\ msnaps' = resp.msnaps
    /\ readSnap' = resp.readSnap
    /\ UNCHANGED <<released, nameVars, listVars>>

(* The caller's buffer before a read: n bytes of stale content. *)
Fresh(n) == [i \in 1..n |-> 9]

----------------------------------------------------------------------------
(* The methods, against the object store.                                   *)

Write(c, oid, data, offset) ==
    \E resp \in Responses(WriteArgs(c, oid, data, offset)) :
        /\ last' = WriteDone(c, oid, data, offset, resp.ret)
        /\ Apply(resp)

Echo(c, oid, data, offset) ==
    IF /\ last.op = "Write" /\ last.outcome = "return" /\ ~last.err.isErr
       /\ last.ctx = c /\ last.oid = oid /\ last.off = offset
       /\ Len(last.data) = Len(data)
    THEN [on |-> TRUE, data |-> last.data]
    ELSE [on |-> FALSE, data |-> <<>>]

Read(c, oid, data, offset) ==
    \E resp \in Responses(ReadArgs(c, oid, data, offset)) :
        /\ last' = [ReadDone(c, oid, data, offset, resp.ret, resp.bytes)
                        EXCEPT !.echo = Echo(c, oid, data, offset)]
        /\ Apply(resp)

Delete(c, oid) ==
    \E resp \in Responses(DeleteArgs(c, oid)) :
        /\ last' = DeleteDone(c, oid, resp.ret)
        /\ Apply(resp)

Truncate(c, oid, size) ==
    \E resp \in Responses(TruncateArgs(c, oid, size)) :
        /\ last' = TruncateDone(c, oid, size, resp.ret)
        /\ Apply(resp)

GetPoolStats(c) ==
    \E resp \in Responses(GetPoolStatsArgs(c)) :
        /\ last' = GetPoolStatsDone(c, resp.ret, resp.c_stat)
        /\ Apply(resp)

SetReadSnapshot(c, snap) ==
    \E resp \in Responses(SetReadSnapshotArgs(c, snap)) :
        /\ last' = SetReadSnapshotDone(c, snap)
        /\ Apply(resp)

CreateManagedSnapshot(c) ==
    /\ \E i \in SnapIds : msnaps[i].state = "free"
    /\ \E resp \in Responses(CreateManagedSnapshotArgs(c)) :
        /\ last' = CreateManagedSnapshotDone(c, resp.ret, resp.snap)
        /\ Apply(resp)

RemoveManagedSnapshot(c, snap) ==
    \E resp \in Responses(RemoveManagedSnapshotArgs(c, snap)) :
        /\ last' = RemoveManagedSnapshotDone(c, snap, resp.ret)
        /\ Apply(resp)

RollbackManagedObject(c, oid, snap) ==
    \E resp \in Responses(RollbackManagedObjectArgs(c, oid, snap)) :
        /\ last' = RollbackManagedObjectDone(c, oid, snap, resp.ret)
        /\ Apply(resp)

Init ==
    /\ objects = EmptyStore
    /\ msnaps = [i \in SnapIds |-> FreeSnap]
    /\ readSnap = [c \in Ctxs |-> SnapHead]
    /\ released = [c \in Ctxs |-> 0]
    /\ last = Idle
    /\ poolName = <<>>
    /\ gpn = GpnIdle
    /\ pool = <<>>
    /\ cursors = <<>>
    /\ lo = LoIdle

Next ==
    \/ \E c \in Ctxs, oid \in Oids, data \in SeqsUpTo(Bytes, MaxSize), offset \in 0..MaxSize :
          offset + Len(data) <= MaxSize /\ Write(c, oid, data, offset)
    \/ \E c \in Ctxs, oid \in Oids, n \in 0..MaxSize, offset \in 0..MaxSize :
          Read(c, oid, Fresh(n), offset)
    \/ \E c \in Ctxs, oid \in Oids : Delete(c, oid)
    \/ \E c \in Ctxs, oid \in Oids, size \in 0..MaxSize : Truncate(c, oid, size)
    \/ \E c \in Ctxs : GetPoolStats(c)
    \/ \E c \in Ctxs, snap \in SnapArgs : SetReadSnapshot(c, snap)
    \/ \E c \in Ctxs : CreateManagedSnapshot(c)
    \/ \E c \in Ctxs, snap \in SnapArgs : RemoveManagedSnapshot(c, snap)
    \/ \E c \in Ctxs, oid \in Oids, snap \in SnapArgs : RollbackManagedObject(c, oid, snap)

Spec == Init /\ [][Next]_vars

InitName ==
    /\ objects = EmptyStore
    /\ msnaps = [i \in SnapIds |-> FreeSnap]
    /\ readSnap = [c \in Ctxs |-> SnapHead]
    /\ released = [c \in Ctxs |-> 0]
    /\ last = Idle
    /\ poolName \in {NameOfLen(n) : n \in 0..MaxNameLen}
    /\ gpn = GpnIdle
    /\ pool = <<>>
    /\ cursors = <<>>
    /\ lo = LoIdle

InitList ==
    /\ objects = EmptyStore
    /\ msnaps = [i \in SnapIds |-> FreeSnap]
    /\ readSnap = [c \in Ctxs |-> SnapHead]
    /\ released = [c \in Ctxs |-> 0]
    /\ last = Idle
    /\ poolName = <<>>
    /\ gpn = GpnIdle
    /\ pool \in Pools
    /\ cursors = <<>>
    /\ lo = LoIdle

NextList == ListObjects \/ ListObjectsNext \/ ListObjectsVisit

SpecList == InitList /\ [][NextList]_vars

NextName == GetPoolName \/ GetPoolNameCall

(* The loop is straight-line code around a synchronous call: once entered   *)
(* it keeps running.                                                        *)
SpecName == InitName /\ [][NextName]_vars /\ WF_vars(GetPoolNameCall)

----------------------------------------------------------------------------
(* The methods against a cluster that may answer any status (SpecStatus),   *)
(* and Destroy.                                                             *)

Statuses == {ERANGE, -5, ENOENT, -1, 0, 1, 2}

(* What librados may have stored through &c_stat and &snap. *)
SomeStat == [NoStat EXCEPT !.num_bytes = 2, !.num_objects = 1, !.num_rd = 1]
StatsOut == {NoStat, SomeStat}
SnapsOut == {0, 1}

(* A call on a released handle is a use after free inside librados: it may  *)
(* return a status, or the process dies in the call.                        *)
Aborted(rec) ==
    [Idle EXCEPT !.op = rec.op, !.ctx = rec.ctx, !.oid = rec.oid, !.data = rec.data,
                 !.off = rec.off, !.snap = rec.snap, !.name = rec.name,
                 !.calls = rec.calls, !.outcome = "fault"]

Outcomes(c, rec) ==
    IF released[c] > 0 /\ rec.calls # <<>> THEN {rec, Aborted(rec)} ELSE {rec}

(* The invocation rec through context c ends, as the handle allows. *)
Invoke(c, rec) ==
    /\ last.outcome # "fault"
    /\ last' \in Outcomes(c, rec)
    /\ UNCHANGED <<released, ioVars, nameVars, listVars>>

Destroy(c) ==
    /\ last.outcome # "fault"
    /\ released[c] < MaxDestroy
    /\ LET call == DestroyArgs(c)
       IN  /\ released' = [released EXCEPT ![c] = @ + (IF call.issued THEN 1 ELSE 0)]
           /\ last' \in Outcomes(c, DestroyDone(c))
    /\ UNCHANGED <<ioVars, nameVars, listVars>>

NextStatus ==
    \/ \E c \in Ctxs, ret \in Statuses, oid \in Oids,
          data \in SeqsUpTo(Bytes, MaxSize), offset \in 0..MaxSize :
          Invoke(c, WriteDone(c, oid, data, offset, ret))
    \/ \E c \in Ctxs, ret \in Statuses, oid \in Oids, n \in 0..MaxSize, offset \in 0..MaxSize :
          ret <= n /\ Invoke(c, ReadDone(c, oid, Fresh(n), offset, ret,
                                         [i \in 1..Max(ret, 0) |-> 1]))
    \/ \E c \in Ctxs, ret \in Statuses, oid \in Oids :
          Invoke(c, DeleteDone(c, oid, ret))
    \/ \E c \in Ctxs, ret \in Statuses, oid \in Oids, size \in 0..MaxSize :
          Invoke(c, TruncateDone(c, oid, size, ret))
    \/ \E c \in Ctxs, ret \in Statuses, st \in StatsOut :
          Invoke(c, GetPoolStatsDone(c, ret, st))
    \/ \E c \in Ctxs, ret \in Statuses, name \in SnapNames :
          Invoke(c, CreatePoolSnapshotDone(c, name, ret))
    \/ \E c \in Ctxs, ret \in Statuses, name \in SnapNames :
          Invoke(c, RemovePoolSnapshotDone(c, name, ret))
    \/ \E c \in Ctxs, ret \in Statuses, oid \in Oids, name \in SnapNames :
          Invoke(c, RollbackObjectDone(c, oid, name, ret))
    \/ \E c \in Ctxs, snap \in SnapIds :
          Invoke(c, SetReadSnapshotDone(c, snap))
    \/ \E c \in Ctxs, ret \in Statuses, id \in SnapsOut :
          Invoke(c, CreateManagedSnapshotDone(c, ret, id))
    \/ \E c \in Ctxs, ret \in Statuses, snap \in SnapIds :
          Invoke(c, RemoveManagedSnapshotDone(c, snap, ret))
    \/ \E c \in Ctxs, ret \in Statuses, oid \in Oids, snap \in SnapIds :
          Invoke(c, RollbackManagedObjectDone(c, oid, snap, ret))
    \/ \E c \in Ctxs : Destroy(c)

SpecStatus == Init /\ [][NextStatus]_vars

----------------------------------------------------------------------------
(* Properties of Write and Read against the object store (Spec).            *)

(* C1: Write with zero-length data is a no-op that succeeds: it returns     *)
(* nil and does not fault on the address of the empty buffer's element.     *)
C1_EmptyWriteSucceeds ==
    (last.op = "Write" /\ Len(last.data) = 0) =>
        (last.outcome = "return" /\ ~last.err.isErr)

(* C2: Read with an empty buffer returns (0, nil) and issues no librados    *)
(* call, whatever the object, the offset and the state of the pool.         *)
C2_EmptyReadShortCircuits ==
    (last.op = "Read" /\ Len(last.data) = 0) =>
        /\ last.outcome = "return"
        /\ last.n = 0
        /\ ~last.err.isErr
        /\ last.calls = <<>>

(* An empty Read of an object that does not exist: a one-byte Read of it    *)
(* is failed by the cluster.                                                *)
C2_Witness ==
    /\ last.op = "Read" /\ Len(last.data) = 0 /\ last.outcome = "return"
    /\ ~objects[last.oid].exists

(* C6 as stated: a successful Write of N bytes at offset O followed         *)
(* immediately by a Read of N bytes at O on the same context returns count  *)
(* N and exactly the bytes written, after any preceding operations.         *)
C6_WriteThenReadAlways ==
    (last.op = "Read" /\ last.echo.on) =>
        /\ ~last.err.isErr
        /\ last.n = Len(last.echo.data)
        /\ last.buf = last.echo.data

(* C6 amended: the same, provided the context reads the live objects (its   *)
(* read snapshot is the head, the state before any SetReadSnapshot).        *)
C6_WriteThenReadAtHead ==
    (last.op = "Read" /\ last.echo.on /\ readSnap[last.ctx] = SnapHead) =>
        /\ ~last.err.isErr
        /\ last.n = Len(last.echo.data)
        /\ last.buf = last.echo.data

(* A Read at the head echoing a Write of MaxSize bytes, while a live        *)
(* snapshot holds other content for the object.                             *)
C6_Witness ==
    /\ last.op = "Read" /\ last.echo.on /\ readSnap[last.ctx] = SnapHead
    /\ Len(last.echo.data) = MaxSize /\ last.buf = last.echo.data
    /\ \E i \in SnapIds : /\ msnaps[i].state = "live"
                          /\ msnaps[i].store[last.oid] # objects[last.oid]

(* C7: SetReadSnapshot(snap) changes only the read snapshot of its own      *)
(* context; every other method leaves all read snapshots alone; a Read      *)
(* returns the object as of the context's read snapshot; Write, Truncate    *)
(* and Delete act on the live object and leave the snapshots alone.         *)
ExpectedRead(store, oid, len, off) ==
    SubSeq(store[oid].data, off + 1, Min(off + len, Len(store[oid].data)))

C7_Step ==
    /\ (last'.op = "SetReadSnapshot") =>
          /\ objects' = objects
          /\ msnaps' = msnaps
          /\ readSnap' = [readSnap EXCEPT ![last'.ctx] = last'.snap]
    /\ (last'.op # "SetReadSnapshot") => readSnap' = readSnap
    /\ (last'.op = "Read" /\ Len(last'.data) > 0 /\ readSnap[last'.ctx] \in SnapIds) =>
          LET snap == msnaps[readSnap[last'.ctx]]
          IN  IF snap.state = "live" /\ snap.store[last'.oid].exists
              THEN LET want == ExpectedRead(snap.store, last'.oid, Len(last'.data), last'.off)
                   IN  /\ ~last'.err.isErr
                       /\ last'.n = Len(want)
                       /\ SubSeq(last'.buf, 1, last'.n) = want
              ELSE last'.err = RadosError(ENOENT) /\ last'.n = 0
    /\ (last'.op = "Write" /\ last'.outcome = "return") =>
          /\ msnaps' = msnaps
          /\ objects'[last'.oid].exists
          /\ SubSeq(objects'[last'.oid].data, last'.off + 1,
                    last'.off + Len(last'.data)) = last'.data
    /\ (last'.op = "Truncate") =>
          /\ msnaps' = msnaps
          /\ objects'[last'.oid].exists
          /\ Len(objects'[last'.oid].data) = last'.off
    /\ (last'.op = "Delete") =>
          /\ msnaps' = msnaps
          /\ ~objects'[last'.oid].exists
          /\ last'.err.isErr <=> ~objects[last'.oid].exists

(* C7: every step keeps the frame of SetReadSnapshot stated in C7_Step. *)
C7_SetReadSnapshotFrame == [][C7_Step]_vars

(* A Read through a context whose read snapshot is a live snapshot, of an   *)
(* object written since, while the other context still reads the head.      *)
C7_Witness ==
    /\ last.op = "Read" /\ last.n > 0
    /\ readSnap[last.ctx] \in SnapIds
    /\ msnaps[readSnap[last.ctx]].state = "live"
    /\ msnaps[readSnap[last.ctx]].store[last.oid] # objects[last.oid]
    /\ \E c \in Ctxs : c # last.ctx /\ readSnap[c] = SnapHead

----------------------------------------------------------------------------
(* Properties of the status conversion and of Destroy (SpecStatus).         *)

ZeroOps == {"Write", "Delete", "Truncate"}
NegOps  == {"Read", "GetPoolStats", "CreatePoolSnapshot", "RemovePoolSnapshot",
            "RollbackObject", "CreateManagedSnapshot", "RemoveManagedSnapshot",
            "RollbackManagedObject"}

(* The result of rec is its call's status, converted without classification. *)
Converted(rec) ==
    LET st == rec.rets[1]
    IN  /\ rec.op \in ZeroOps => rec.err = (IF st = 0 THEN Nil ELSE RadosError(st))
        /\ rec.op \in NegOps => rec.err = (IF st < 0 THEN RadosError(st) ELSE Nil)
        /\ (rec.op = "Read" /\ st < 0) => rec.n = 0
        /\ (rec.op = "Read" /\ st >= 0) => rec.n = st
        /\ (rec.op = "GetPoolStats" /\ st < 0) => rec.stat = PoolStatZero
        /\ (rec.op = "CreateManagedSnapshot") => (rec.snapOut.nil <=> st < 0)

C9_DestroyStep ==
    (last'.op = "Destroy") =>
        /\ released'[last'.ctx] = released[last'.ctx] + 1
        /\ Len(last'.calls) = 1
        /\ last'.calls[1].fn = "rados_ioctx_destroy"
        /\ last'.calls[1].handle = last'.ctx

C9_UseAfterRelease ==
    (/\ last.op \notin {"", "Destroy"}
     /\ released[last.ctx] > 0
     /\ ~(last.op \in {"Read", "Write"} /\ Len(last.data) = 0)) =>
        /\ Len(last.calls) = 1
        /\ last.calls[1].handle = last.ctx

(* C9: Destroy is not idempotent and use after release is not guarded. *)
C9_DestroyNotIdempotent == [][C9_DestroyStep]_vars /\ []C9_UseAfterRelease

(* A context destroyed twice and then written through: the call was issued. *)
C9_Witness ==
    /\ last.op = "Write" /\ last.outcome = "return"
    /\ released[last.ctx] = 2
    /\ Len(last.calls) = 1 /\ last.calls[1].handle = last.ctx

----------------------------------------------------------------------------
(* Properties of GetPoolName (SpecName).                                    *)

(* The buffer sizes the loop goes through for a name of length n: 128,      *)
(* doubled while the name and its NUL do not fit.                           *)
RECURSIVE FittingLen(_, _)
FittingLen(n, len) == IF n < len THEN len ELSE FittingLen(n, len + len)

(* C5: GetPoolName starts with 128 bytes and doubles on every 'buffer too   *)
(* small'; with the cluster answering too-small exactly when the name does  *)
(* not fit, the loop ends and returns the whole name and nil; any other     *)
(* negative status ends it with that error and an empty name.               *)
C5_Shape ==
    /\ (gpn.pc = "call" /\ gpn.rets = <<>>) => gpn.buflen = InitialBufLen
    /\ (gpn.pc = "call") =>
          /\ \A i \in 1..Len(gpn.rets) : gpn.rets[i] = ERANGE
          /\ gpn.buflen <= FittingLen(Len(poolName), InitialBufLen)
    /\ (gpn.pc = "done") =>
          LET r == gpn.rets[Len(gpn.rets)]
          IN  /\ \A i \in 1..(Len(gpn.rets) - 1) : gpn.rets[i] = ERANGE
              /\ gpn.buflen <= FittingLen(Len(poolName), InitialBufLen)
              /\ IF r < 0
                 THEN r \in NameFaults /\ gpn.err = RadosError(r) /\ gpn.name = <<>>
                 ELSE /\ gpn.err = Nil /\ gpn.name = poolName
                      /\ gpn.buflen = FittingLen(Len(poolName), InitialBufLen)

C5_Step ==
    (gpn.pc = "call" /\ gpn'.pc = "call" /\ gpn' # gpn) => gpn'.buflen = 2 * gpn.buflen

(* C5: the loop has the stated shape, doubles at every retry, and ends. *)
C5_GetPoolNameGrows ==
    /\ []C5_Shape
    /\ [][C5_Step]_vars
    /\ (gpn.pc = "call") ~> (gpn.pc = "done")

(* A name that needed two doublings came back whole. *)
C5_Witness ==
    /\ gpn.pc = "done" /\ gpn.err = Nil
    /\ Len(gpn.rets) = 3 /\ gpn.buflen = 4 * InitialBufLen
    /\ Len(poolName) >= 2 * InitialBufLen /\ gpn.name = poolName

----------------------------------------------------------------------------
(* Properties of ListObjects (SpecList).                                    *)

NamesOf(tr, ev) ==
    LET sel == SelectSeq(tr, LAMBDA e : e.ev = ev /\ e.ret >= 0)
    IN  [i \in 1..Len(sel) |-> sel[i].name]

(* The cursor yielded names and then the end of the sequence. *)
Faithful(tr) ==
    \A i \in 1..Len(tr) : tr[i].ret < 0 => (tr[i].ev = "next" /\ tr[i].ret = ENOENT)

(* C3: with the cursor yielding the pool's names and then end of sequence,  *)
(* visit is called once per name, each visit before the next list_next,     *)
(* and ListObjects returns nil.                                             *)
C3_VisitsEachNameOnce ==
    LET tr == lo.trace
    IN  /\ \A i \in 1..Len(tr) :
              /\ (tr[i].ev = "next" /\ tr[i].ret >= 0) =>
                    \/ i = Len(tr) /\ lo.pc = "visit"
                    \/ i < Len(tr) /\ tr[i + 1].ev = "visit" /\ tr[i + 1].name = tr[i].name
              /\ (tr[i].ev = "visit") =>
                    i > 1 /\ tr[i - 1].ev = "next" /\ tr[i - 1].ret >= 0
        /\ (lo.pc = "done" /\ lo.outcome = "return" /\ Faithful(tr)) =>
              /\ lo.err = Nil
              /\ NamesOf(tr, "visit") = pool

(* A full pool listed to the end. *)
C3_Witness ==
    /\ lo.pc = "done" /\ lo.outcome = "return" /\ lo.err = Nil
    /\ Len(pool) = MaxPool /\ NamesOf(lo.trace, "visit") = pool

(* C4: a cursor that was opened is closed exactly once before ListObjects   *)
(* is left, on every exit; no list_next follows the close; a failed open    *)
(* is followed by no close and no list_next.                                *)
C4_CursorClosedOnce ==
    LET tr == lo.trace
    IN  /\ \A id \in 1..Len(cursors) :
              /\ cursors[id].closes <= 1
              /\ cursors[id].late = 0
              /\ (cursors[id].state = "closed") <=> (cursors[id].closes = 1)
              /\ (lo.pc \in {"idle", "done"} \/ id # lo.ctx) => cursors[id].closes = 1
        /\ (lo.pc \in {"next", "visit"}) => cursors[lo.ctx].state = "open"
        /\ \A i \in 1..Len(tr) : tr[i].ev = "close" => (i = Len(tr) /\ lo.pc = "done")
        /\ (lo.pc = "done" /\ tr[1].ret >= 0) =>
              (tr[Len(tr)].ev = "close" /\ tr[Len(tr)].cur = lo.ctx)
        /\ (lo.pc = "done" /\ tr[1].ret < 0) => (Len(tr) = 1 /\ lo.ctx = 0)

(* The visitor panicked after two names; the cursor is closed. *)
C4_Witness ==
    /\ lo.pc = "done" /\ lo.outcome = "panic"
    /\ Len(NamesOf(lo.trace, "visit")) = 2
    /\ cursors[lo.ctx].closes = 1

(* C10: a negative status of list_next other than end of sequence, after k  *)
(* entries, ends ListObjects at once: visit was called for those k entries  *)
(* in order, nothing follows but the close, the error carries the status,   *)
(* and the next ListObjects starts a fresh cursor from the first name.      *)
C10_AbortsOnError ==
    LET tr == lo.trace
        fetched == NamesOf(tr, "next")
    IN  /\ \A i \in 1..Len(tr) :
              (tr[i].ev = "next" /\ tr[i].ret < 0 /\ tr[i].ret # ENOENT) =>
                  /\ lo.pc = "done" /\ lo.outcome = "return"
                  /\ i = Len(tr) - 1 /\ tr[Len(tr)].ev = "close"
                  /\ lo.err = RadosError(tr[i].ret)
                  /\ NamesOf(tr, "visit") = fetched
                  /\ cursors[lo.ctx].state = "closed"
        /\ fetched = SubSeq(pool, 1, Len(fetched))
        /\ (lo.pc = "next" /\ Len(tr) = 1) =>
              /\ lo.ctx = Len(cursors)
              /\ cursors[lo.ctx] = NewCursor

(* A listing that failed after one entry, then a second one that visited    *)
(* the whole pool.                                                          *)
C10_Witness ==
    /\ lo.runs = 2 /\ lo.pc = "done" /\ lo.err = Nil /\ lo.outcome = "return"
    /\ Len(pool) >= 2 /\ NamesOf(lo.trace, "visit") = pool
    /\ cursors[1].lastRet \in ListFaults /\ cursors[1].pos = 1

====
